---- MODULE Spec2Model ----
(***************************************************************************)
(* SimpleSantaBot (src/bot.py): the long-polling loop, the text router,    *)
(* the registration dialogue, the organizer commands and the draw.         *)
(*                                                                         *)
(* A text is a sequence of one-character strings, so that strip, split,    *)
(* startswith and int() are computed as Python computes them.              *)
(***************************************************************************)
EXTENDS Integers, Sequences, FiniteSets, TLC

\* ------------------------------------------------------------------ bounds
MaxUsers == 3          \* rows ever inserted into the users table
MaxUpdates == 4        \* update ids the feed hands out (organizer scenarios)
MaxUpdatesAdmin == 2   \* ... in the command-parsing scenarios
MaxUpdatesDialog == 5  \* ... in the registration scenarios
MaxUpdatesIngest == 4  \* ... in the polling scenarios
MaxUpdatesEvent == 4   \* ... in the scenarios of the organizer running the event
MaxPending == 1        \* unconfirmed updates the feed holds
MaxPendingIngest == 2  \* ... in the polling scenarios

\* --------------------------------------------------------- configuration
ORGANIZER_IDS == {100}
NULL == 0

\* ------------------------------------------------------------------ texts
cStats == <<"/", "s", "t", "a", "t", "s">>
cUsers == <<"/", "u", "s", "e", "r", "s">>
cClose == <<"/", "c", "l", "o", "s", "e">>
cOpen == <<"/", "o", "p", "e", "n">>
cStartEvent == <<"/", "s", "t", "a", "r", "t", "_", "e", "v", "e", "n", "t">>
cDel == <<"/", "d", "e", "l">>
cGift == <<"/", "g", "i", "f", "t">>
cReceived == <<"/", "r", "e", "c", "e", "i", "v", "e", "d">>
cHelpAdmin == <<"/", "h", "e", "l", "p", "_", "a", "d", "m", "i", "n">>
cStart == <<"/", "s", "t", "a", "r", "t">>
cHelp == <<"/", "h", "e", "l", "p">>

AdminCommands ==
  <<cStats, cUsers, cClose, cOpen, cStartEvent, cDel, cGift, cReceived, cHelpAdmin>>

Whitespace == {" "}
Digits == <<"0", "1", "2", "3", "4", "5", "6", "7", "8", "9">>

StartsWith(t, p) == Len(t) >= Len(p) /\ SubSeq(t, 1, Len(p)) = p

RECURSIVE LStrip(_)
LStrip(t) == IF t # <<>> /\ Head(t) \in Whitespace THEN LStrip(Tail(t)) ELSE t

RECURSIVE RStrip(_)
RStrip(t) ==
  IF t # <<>> /\ t[Len(t)] \in Whitespace THEN RStrip(SubSeq(t, 1, Len(t) - 1)) ELSE t

Strip(t) == RStrip(LStrip(t))

\* the first whitespace-free run of a text that starts with a non-blank
RECURSIVE Word(_)
Word(t) ==
  IF t = <<>> \/ Head(t) \in Whitespace THEN <<>> ELSE <<Head(t)>> \o Word(Tail(t))

\* str.split(): the maximal whitespace-free runs, in order
RECURSIVE Split(_)
Split(t) ==
  LET s == LStrip(t)
      w == Word(s)
  IN IF s = <<>> THEN <<>> ELSE <<w>> \o Split(SubSeq(s, Len(w) + 1, Len(s)))

IsDigit(c) == \E i \in 1..10 : Digits[i] = c
DigitVal(c) == (CHOOSE i \in 1..10 : Digits[i] = c) - 1

RECURSIVE DecVal(_)
DecVal(ds) ==
  IF ds = <<>> THEN 0 ELSE 10 * DecVal(SubSeq(ds, 1, Len(ds) - 1)) + DigitVal(ds[Len(ds)])

\* int(token): an optional sign and decimal digits, ValueError otherwise
ParseInt(tok) ==
  LET signed == tok # <<>> /\ Head(tok) \in {"-", "+"}
      ds == IF signed THEN Tail(tok) ELSE tok
      ok == ds # <<>> /\ \A i \in 1..Len(ds) : IsDigit(ds[i])
  IN IF ~ok THEN [ok |-> FALSE, val |-> 0]
     ELSE [ok |-> TRUE,
           val |-> IF signed /\ Head(tok) = "-" THEN 0 - DecVal(ds) ELSE DecVal(ds)]

\* int(text.split()[1]): IndexError and ValueError both give ok = FALSE
ParseArg(text) ==
  LET parts == Split(text)
  IN IF Len(parts) < 2 THEN [ok |-> FALSE, val |-> 0] ELSE ParseInt(parts[2])

\* --------------------------------------------------------- inbound events
Arg(c, a) == c \o <<" ">> \o a

\* an update carrying a text message of a private chat (chat id = sender id)
Message(from, text) == [kind |-> "message", from |-> from, text |-> text]
\* an update without a "message" key (an edited message, a callback)
OtherUpdate == [kind |-> "other", from |-> 0, text |-> <<>>]
\* a message without a "from" key (a channel post)
NoFromUpdate == [kind |-> "nofrom", from |-> 0, text |-> <<>>]

\* ------------------------------------------------------------------ state
VARIABLES
  users,            \* table users: id -> row
  seq,              \* AUTOINCREMENT: the largest id ever given out
  registration_open,
  event_started,
  user_data,        \* self.user_data: external id -> session
  last_update_id,   \* self.last_update_id
  pending,          \* the feed: updates not yet confirmed by an offset
  batch,            \* the rest of the list process_updates iterates over
  outbox,           \* send_message calls made while handling the last update,
                    \* delivered or not: no caller reads the result
  dispatched        \* history: update ids handed to the router, in order

vars ==
  <<users, seq, registration_open, event_started, user_data, last_update_id,
    pending, batch, outbox, dispatched>>

store == <<users, seq, registration_open, event_started>>

Msg(to, kind, arg) == [to |-> to, kind |-> kind, arg |-> arg, ok |-> TRUE]

NewRow(user_id, fio, group, text) ==
  [telegram_id |-> user_id, fio |-> fio, group_name |-> group,
   preferences |-> text, santa_id |-> NULL, gift_delivered |-> FALSE,
   gift_received |-> FALSE]

\* santa.db outlives the process: a start finds the rows earlier runs inserted
Stored(k) == [i \in 1..k |-> NewRow(100 * i, <<"a">>, <<"a">>, <<"b">>)]

Init ==
  /\ \E k \in 0..MaxUsers : users = Stored(k) /\ seq = k
  /\ registration_open = TRUE
  /\ event_started = FALSE
  /\ user_data = <<>>
  /\ last_update_id = 0
  /\ pending = <<>>
  /\ batch = <<>>
  /\ outbox = <<>>
  /\ dispatched = <<>>

\* ------------------------------------------------------------ store reads
RECURSIVE Ascending(_)
Ascending(S) ==
  IF S = {} THEN <<>>
  ELSE LET m == CHOOSE x \in S : \A y \in S : x <= y
       IN <<m>> \o Ascending(S \ {m})

get_all_users(db) == Ascending(DOMAIN db)

ByTelegramId(db, tg) == {i \in DOMAIN db : db[i].telegram_id = tg}

CountDelivered(db) == Cardinality({i \in DOMAIN db : db[i].gift_delivered})
CountReceived(db) == Cardinality({i \in DOMAIN db : db[i].gift_received})

\* a reader that takes the default of the column for its value
registration_always_open == TRUE

is_registration_open == registration_open
is_event_started == event_started

\* ------------------------------------------------------- show_assignment
NotSpecified == <<"-">>

show_assignment(db, chat_id, user_db_id) ==
  IF user_db_id \in DOMAIN db /\ db[user_db_id].santa_id # NULL
  THEN LET receiver_id == db[user_db_id].santa_id
           preferences ==
             IF receiver_id \in DOMAIN db THEN db[receiver_id].preferences
             ELSE NotSpecified
       IN <<Msg(chat_id, "assignment", <<receiver_id, preferences>>)>>
  ELSE <<Msg(chat_id, "no_assignment", <<>>)>>

\* send_message returning False: the request failed or was answered with an
\* error, for the chats in failed
Attempt(msgs, failed) ==
  [k \in DOMAIN msgs |->
     IF msgs[k].to \in failed THEN [msgs[k] EXCEPT !.ok = FALSE] ELSE msgs[k]]

\* a loop that gives up at the first send that fails
RECURSIVE NotifyRowsUntilFailure(_, _, _)
NotifyRowsUntilFailure(db, ids, failed) ==
  IF ids = <<>> THEN <<>>
  ELSE Attempt(show_assignment(db, db[Head(ids)].telegram_id, Head(ids)), failed)
       \o (IF db[Head(ids)].telegram_id \in failed THEN <<>>
           ELSE NotifyRowsUntilFailure(db, Tail(ids), failed))

RECURSIVE NotifyRows(_, _, _)
NotifyRows(db, ids, failed) ==
  IF ids = <<>> THEN <<>>
  ELSE Attempt(show_assignment(db, db[Head(ids)].telegram_id, Head(ids)), failed)
       \o NotifyRows(db, Tail(ids), failed)

notify_all_users(db, failed) == NotifyRows(db, get_all_users(db), failed)

\* the chats whose sends fail during one fan-out: chat 200 may have blocked
\* the bot
Unreachable == {200}

Failures == SUBSET Unreachable

notify_gift_delivered(db, user_db_id) ==
  IF \E g \in DOMAIN db : db[g].santa_id = user_db_id
  THEN IF user_db_id \in DOMAIN db
       THEN <<Msg(db[user_db_id].telegram_id, "gift_delivered_notice", <<>>)>>
       ELSE <<>>
  ELSE <<>>

\* ------------------------------------------------------------ start_santa
Shuffles(S) ==
  {o \in [1..Cardinality(S) -> S] : \A i, j \in 1..Cardinality(S) : o[i] = o[j] => i = j}

Position(order, id) == CHOOSE i \in 1..Len(order) : order[i] = id

\* slips of the index arithmetic: users[(i + 2) % len(users)] and users[i]
ReceiverSkip(order, giver) == order[((Position(order, giver) + 1) % Len(order)) + 1]
ReceiverSelf(order, giver) == order[Position(order, giver)]

\* the slip of clamping the index instead of wrapping it: users[min(i + 1, len(users) - 1)]
ReceiverNoWrap(order, giver) ==
  order[IF Position(order, giver) < Len(order) THEN Position(order, giver) + 1
        ELSE Len(order)]

\* users[(i + 1) % len(users)] for the giver at 0-based index i
Receiver(order, giver) == order[(Position(order, giver) % Len(order)) + 1]

\* a draw that rewrites the whole row from its defaults
AssignResetting(db, order) ==
  [i \in DOMAIN db |-> [db[i] EXCEPT !.santa_id = Receiver(order, i),
                                     !.gift_delivered = FALSE,
                                     !.gift_received = FALSE]]

Assign(db, order) ==
  [i \in DOMAIN db |-> [db[i] EXCEPT !.santa_id = Receiver(order, i)]]

\* -------------------------------------------------------------- the router
IsAdminText(text) ==
  /\ StartsWith(text, <<"/">>)
  /\ \E k \in 1..Len(AdminCommands) : StartsWith(text, AdminCommands[k])

Route(text) ==
  IF IsAdminText(text) THEN "admin"
  ELSE IF text = cStart THEN "start"
  ELSE IF text = cHelp THEN "help"
  ELSE "message"

AdminBranch(text) ==
  IF text = cStats THEN "stats"
  ELSE IF text = cUsers THEN "users"
  ELSE IF text = cClose THEN "close"
  ELSE IF text = cOpen THEN "open"
  ELSE IF text = cStartEvent THEN "start_event"
  ELSE IF StartsWith(text, cDel \o <<" ">>) THEN "del"
  ELSE IF StartsWith(text, cGift \o <<" ">>) THEN "gift"
  ELSE IF StartsWith(text, cReceived \o <<" ">>) THEN "received"
  ELSE IF text = cHelpAdmin THEN "help_admin"
  ELSE "none"

\* the handler without its membership test
IsOrganizerAnyone(user_id) == TRUE

IsOrganizer(user_id) == user_id \in ORGANIZER_IDS

\* the update process_updates is at, and the fields it extracts
cur == Head(batch)
curText == Strip(cur.text)
curUser == cur.from
curChat == cur.from

\* self.last_update_id = update["update_id"], then on to the next update
Consume ==
  /\ last_update_id' = cur.update_id
  /\ batch' = Tail(batch)
  /\ pending' = pending

Routed(route) ==
  /\ batch # <<>>
  /\ cur.kind = "message"
  /\ Route(curText) = route
  /\ Consume
  /\ dispatched' = Append(dispatched, cur.update_id)

Admin(branch) ==
  /\ Routed("admin")
  /\ IsOrganizer(curUser)
  /\ AdminBranch(curText) = branch

\* ------------------------------------------------ handle_admin_commands
Denied ==
  /\ Routed("admin")
  /\ ~IsOrganizer(curUser)
  /\ outbox' = <<Msg(curChat, "denied", <<>>)>>
  /\ UNCHANGED <<store, user_data>>

CmdStats ==
  /\ Admin("stats")
  /\ outbox' = <<Msg(curChat, "stats",
                     <<Cardinality(DOMAIN users), CountDelivered(users),
                       CountReceived(users), is_registration_open,
                       is_event_started>>)>>
  /\ UNCHANGED <<store, user_data>>

ListLine(db, i) ==
  <<db[i].fio, i, db[i].group_name, db[i].gift_delivered, db[i].gift_received>>

CmdUsers ==
  /\ Admin("users")
  /\ LET rows == get_all_users(users)
     IN outbox' =
          IF rows = <<>> THEN <<Msg(curChat, "no_users", <<>>)>>
          ELSE <<Msg(curChat, "user_list",
                     [k \in 1..Len(rows) |-> ListLine(users, rows[k])])>>
  /\ UNCHANGED <<store, user_data>>

CmdClose ==
  /\ Admin("close")
  /\ registration_open' = FALSE
  /\ outbox' = <<Msg(curChat, "closed", <<>>)>>
  /\ UNCHANGED <<users, seq, event_started, user_data>>

CmdOpen ==
  /\ Admin("open")
  /\ registration_open' = TRUE
  /\ outbox' = <<Msg(curChat, "opened", <<>>)>>
  /\ UNCHANGED <<users, seq, event_started, user_data>>

\* the slip len(users) < 1
TooFewOffByOne(db) == Cardinality(DOMAIN db) < 1

\* len(users) < 2
TooFew(db) == Cardinality(DOMAIN db) < 2

\* a refusal that also writes event_started = 0
CmdStartEventTooFewResets ==
  /\ Admin("start_event")
  /\ TooFew(users)
  /\ outbox' = <<Msg(curChat, "need_two", <<>>)>>
  /\ event_started' = FALSE
  /\ UNCHANGED <<users, seq, registration_open, user_data>>

\* start_santa returning early with fewer than two rows
CmdStartEventTooFew ==
  /\ Admin("start_event")
  /\ TooFew(users)
  /\ outbox' = <<Msg(curChat, "need_two", <<>>)>>
  /\ UNCHANGED <<store, user_data>>

\* a draw that leaves out UPDATE event_settings SET event_started = 1
CmdStartEventUnflagged ==
  /\ Admin("start_event")
  /\ ~TooFew(users)
  /\ \E order \in Shuffles(DOMAIN users), failed \in Failures :
       /\ users' = Assign(users, order)
       /\ outbox' = <<Msg(curChat, "draw_done", <<Len(order)>>)>>
                    \o notify_all_users(users', failed)
  /\ UNCHANGED <<seq, registration_open, event_started, user_data>>

\* start_santa, then the count message and notify_all_users
CmdStartEvent ==
  /\ Admin("start_event")
  /\ ~TooFew(users)
  /\ \E order \in Shuffles(DOMAIN users), failed \in Failures :
       /\ users' = Assign(users, order)
       /\ outbox' = <<Msg(curChat, "draw_done", <<Len(order)>>)>>
                    \o notify_all_users(users', failed)
  /\ event_started' = TRUE
  /\ UNCHANGED <<seq, registration_open, user_data>>

\* a deletion that also clears the santa_id values pointing at the row
delete_user_and_references(db, user_db_id) ==
  [i \in DOMAIN db \ {user_db_id} |->
     IF db[i].santa_id = user_db_id THEN [db[i] EXCEPT !.santa_id = NULL] ELSE db[i]]

delete_user(db, user_db_id) == [i \in DOMAIN db \ {user_db_id} |-> db[i]]

CmdDel ==
  /\ Admin("del")
  /\ LET a == ParseArg(curText)
     IN IF ~a.ok
        THEN /\ outbox' = <<Msg(curChat, "usage_del", <<>>)>>
             /\ users' = users
        ELSE IF a.val \in DOMAIN users
        THEN /\ users' = delete_user(users, a.val)
             /\ outbox' =
                  <<Msg(curChat, "deleted",
                        <<a.val, users[a.val].fio, users[a.val].group_name>>)>>
                  \o (IF is_event_started
                      THEN <<Msg(curChat, "rerun_advisory", <<>>)>>
                      ELSE <<>>)
        ELSE /\ outbox' = <<Msg(curChat, "del_not_found", <<>>)>>
             /\ users' = users
  /\ UNCHANGED <<seq, registration_open, event_started, user_data>>

mark_gift_delivered(db, user_db_id) ==
  [i \in DOMAIN db |->
     IF i = user_db_id THEN [db[i] EXCEPT !.gift_delivered = TRUE] ELSE db[i]]

mark_gift_received(db, user_db_id) ==
  [i \in DOMAIN db |->
     IF i = user_db_id THEN [db[i] EXCEPT !.gift_received = TRUE] ELSE db[i]]

\* the slip of testing cursor.rowcount >= 0
RowMatchedAlways(db, user_db_id) == TRUE

\* cursor.rowcount > 0
RowMatched(db, user_db_id) == user_db_id \in DOMAIN db

CmdGift ==
  /\ Admin("gift")
  /\ LET a == ParseArg(curText)
     IN IF ~a.ok
        THEN /\ outbox' = <<Msg(curChat, "usage_gift", <<>>)>>
             /\ users' = users
        ELSE /\ users' = mark_gift_delivered(users, a.val)
             /\ outbox' =
                  IF RowMatched(users, a.val)
                  THEN <<Msg(curChat, "gift_marked", <<a.val>>)>>
                       \o notify_gift_delivered(users', a.val)
                  ELSE <<Msg(curChat, "gift_not_found", <<>>)>>
  /\ UNCHANGED <<seq, registration_open, event_started, user_data>>

CmdReceived ==
  /\ Admin("received")
  /\ LET a == ParseArg(curText)
     IN IF ~a.ok
        THEN /\ outbox' = <<Msg(curChat, "usage_received", <<>>)>>
             /\ users' = users
        ELSE /\ users' = mark_gift_received(users, a.val)
             /\ outbox' =
                  IF RowMatched(users, a.val)
                  THEN <<Msg(curChat, "received_marked", <<a.val>>)>>
                  ELSE <<Msg(curChat, "received_not_found", <<>>)>>
  /\ UNCHANGED <<seq, registration_open, event_started, user_data>>

CmdHelpAdmin ==
  /\ Admin("help_admin")
  /\ outbox' = <<Msg(curChat, "help_admin", <<>>)>>
  /\ UNCHANGED <<store, user_data>>

\* no branch of the if/elif chain matches: the handler returns without a send
CmdNoBranch ==
  /\ Admin("none")
  /\ outbox' = <<>>
  /\ UNCHANGED <<store, user_data>>

\* ------------------------------------------------------------ handle_start
\* handle_start without its lookup
HasRowNever(db, user_id) == FALSE

\* SELECT * FROM users WHERE telegram_id = ? finds a row
HasRow(db, user_id) == ByTelegramId(db, user_id) # {}

Existing(db, user_id) == CHOOSE i \in ByTelegramId(db, user_id) : TRUE

\* a /start that does not look the sender up
StartWithoutLookup ==
  /\ Routed("start")
  /\ IF ~is_registration_open
     THEN /\ outbox' = <<Msg(curChat, "registration_closed", <<>>)>>
          /\ user_data' = user_data
     ELSE /\ outbox' = <<Msg(curChat, "ask_fio", <<>>)>>
          /\ user_data' =
               [u \in DOMAIN user_data \cup {curUser} |->
                  IF u = curUser THEN [step |-> "fio"] ELSE user_data[u]]
  /\ UNCHANGED store

Start ==
  /\ Routed("start")
  /\ IF HasRow(users, curUser)
     THEN LET id == Existing(users, curUser)
          IN /\ outbox' =
                  IF is_event_started THEN show_assignment(users, curChat, id)
                  ELSE <<Msg(curChat, "already_registered", <<users[id].fio, id>>)>>
             /\ user_data' = user_data
     ELSE IF ~is_registration_open
     THEN /\ outbox' = <<Msg(curChat, "registration_closed", <<>>)>>
          /\ user_data' = user_data
     ELSE /\ outbox' = <<Msg(curChat, "ask_fio", <<>>)>>
          /\ user_data' =
               [u \in DOMAIN user_data \cup {curUser} |->
                  IF u = curUser THEN [step |-> "fio"] ELSE user_data[u]]
  /\ UNCHANGED store

Help ==
  /\ Routed("help")
  /\ outbox' = <<Msg(curChat, "help", <<>>)>>
  /\ UNCHANGED <<store, user_data>>

\* ---------------------------------------------------------- handle_message
NoSession ==
  /\ Routed("message")
  /\ curUser \notin DOMAIN user_data
  /\ outbox' = <<Msg(curChat, "use_start", <<>>)>>
  /\ UNCHANGED <<store, user_data>>

\* a first answer that is taken for the group as well
StepFioSkipsGroup ==
  /\ Routed("message")
  /\ curUser \in DOMAIN user_data
  /\ user_data[curUser].step = "fio"
  /\ user_data' =
       [user_data EXCEPT ![curUser] =
          [step |-> "preferences", fio |-> curText, group |-> curText]]
  /\ outbox' = <<Msg(curChat, "ask_preferences", <<>>)>>
  /\ UNCHANGED store

StepFio ==
  /\ Routed("message")
  /\ curUser \in DOMAIN user_data
  /\ user_data[curUser].step = "fio"
  /\ user_data' =
       [user_data EXCEPT ![curUser] = [step |-> "group", fio |-> curText]]
  /\ outbox' = <<Msg(curChat, "ask_group", <<>>)>>
  /\ UNCHANGED store

StepGroup ==
  /\ Routed("message")
  /\ curUser \in DOMAIN user_data
  /\ user_data[curUser].step = "group"
  /\ user_data' =
       [user_data EXCEPT ![curUser] =
          [step |-> "preferences", fio |-> user_data[curUser].fio, group |-> curText]]
  /\ outbox' = <<Msg(curChat, "ask_preferences", <<>>)>>
  /\ UNCHANGED store

\* telegram_id INTEGER UNIQUE: the INSERT raises sqlite3.IntegrityError
UniqueConflict(db, user_id) == ByTelegramId(db, user_id) # {}

\* the handler without its cleanup
CleanupForgotten(sessions, user_id) == sessions

\* del self.user_data[user_id]
Cleanup(sessions, user_id) == [u \in DOMAIN sessions \ {user_id} |-> sessions[u]]

StepPreferences ==
  /\ Routed("message")
  /\ curUser \in DOMAIN user_data
  /\ user_data[curUser].step = "preferences"
  /\ LET user_info == user_data[curUser]
     IN IF ~UniqueConflict(users, curUser)
        THEN /\ seq < MaxUsers          \* the bound on rows ever inserted
             /\ seq' = seq + 1
             /\ users' =
                  [i \in DOMAIN users \cup {seq + 1} |->
                     IF i = seq + 1
                     THEN NewRow(curUser, user_info.fio, user_info.group, curText)
                     ELSE users[i]]
             /\ outbox' = <<Msg(curChat, "registered",
                                <<seq + 1, user_info.fio, user_info.group>>)>>
        ELSE /\ UNCHANGED <<users, seq>>
             /\ outbox' = <<Msg(curChat, "already_registered_conflict", <<>>)>>
  /\ user_data' = Cleanup(user_data, curUser)
  /\ UNCHANGED <<registration_open, event_started>>

\* --------------------------------------------------------- process_updates
\* an update without a "message" key only moves the cursor
SkipUpdate ==
  /\ batch # <<>>
  /\ cur.kind = "other"
  /\ Consume
  /\ outbox' = <<>>
  /\ UNCHANGED <<store, user_data, dispatched>>

\* a loop that moved the cursor to the end of the batch before working on it
RaiseInBatchSkipsRest ==
  /\ batch # <<>>
  /\ cur.kind = "nofrom"
  /\ last_update_id' = batch[Len(batch)].update_id
  /\ batch' = <<>>
  /\ outbox' = <<>>
  /\ UNCHANGED <<store, user_data, pending, dispatched>>

\* message["from"] raises KeyError after the cursor moved; run() catches it,
\* the rest of the batch is abandoned and the loop polls again
RaiseInBatch ==
  /\ batch # <<>>
  /\ cur.kind = "nofrom"
  /\ last_update_id' = cur.update_id
  /\ batch' = <<>>
  /\ outbox' = <<>>
  /\ UNCHANGED <<store, user_data, pending, dispatched>>

\* sqlite3.connect or the SELECT of handle_start raises (a locked or
\* unreadable santa.db): nothing was sent or stored, run() catches the error
\* as above
RaiseInStart ==
  /\ batch # <<>>
  /\ cur.kind = "message"
  /\ Route(curText) = "start"
  /\ last_update_id' = cur.update_id
  /\ dispatched' = Append(dispatched, cur.update_id)
  /\ batch' = <<>>
  /\ outbox' = <<>>
  /\ UNCHANGED <<store, user_data, pending>>

\* ------------------------------------------------------------ get_updates
Limit == 100

\* the slip of polling from the cursor itself
PollOffsetStale == last_update_id

PollOffset == last_update_id + 1

RECURSIVE FromOffset(_, _)
FromOffset(q, offset) ==
  IF q = <<>> THEN <<>>
  ELSE IF Head(q).update_id >= offset THEN <<Head(q)>> \o FromOffset(Tail(q), offset)
  ELSE FromOffset(Tail(q), offset)

\* the feed forgets what lies below the offset and returns the rest; a poll
\* that returns nothing (an idle feed, a failed request) changes no state
GetUpdates ==
  /\ batch = <<>>
  /\ pending # <<>>
  /\ pending' = FromOffset(pending, PollOffset)
  /\ batch' = SubSeq(pending', 1, IF Len(pending') < Limit THEN Len(pending') ELSE Limit)
  /\ UNCHANGED <<store, user_data, last_update_id, outbox, dispatched>>

\* the feed: a new update gets the next update id
NextUpdateId ==
  IF pending = <<>> THEN last_update_id + 1 ELSE pending[Len(pending)].update_id + 1

Arrive(e, maxId, maxPending) ==
  /\ NextUpdateId <= maxId
  /\ Len(pending) < maxPending
  /\ pending' = Append(pending,
                       [update_id |-> NextUpdateId, kind |-> e.kind, from |-> e.from,
                        text |-> e.text])
  /\ UNCHANGED <<store, user_data, last_update_id, batch, outbox, dispatched>>

\* ------------------------------------------------------------ scenarios
\* the organizer runs the event on stored participants while a newcomer
\* registers
Events ==
  {Message(100, t) :
     t \in {cStartEvent, Arg(cDel, <<"1">>), Arg(cDel, <<"3">>), Arg(cGift, <<"1">>),
            Arg(cGift, <<"2">>), Arg(cReceived, <<"1">>)}}
  \cup {Message(400, t) : t \in {cStart, <<"a">>}}

Next ==
  \/ \E e \in Events : Arrive(e, MaxUpdates, MaxPending)
  \/ GetUpdates
  \/ CmdStartEventTooFew
  \/ CmdStartEvent
  \/ CmdDel
  \/ CmdGift
  \/ CmdReceived
  \/ Start
  \/ NoSession
  \/ StepFio
  \/ StepGroup
  \/ StepPreferences

Spec == Init /\ [][Next]_vars

\* every organizer command, well-formed and malformed, from the organizer
\* and from a participant who is none
\* the organizer running the event over the stored participants
EventsEvent ==
  {Message(100, t) :
     t \in {cStartEvent, Arg(cDel, <<"1">>), Arg(cDel, <<"2">>), Arg(cGift, <<"1">>),
            Arg(cReceived, <<"1">>)}}

NextEvent ==
  \/ \E e \in EventsEvent : Arrive(e, MaxUpdatesEvent, MaxPending)
  \/ GetUpdates
  \/ CmdStartEventTooFew
  \/ CmdStartEvent
  \/ CmdDel
  \/ CmdGift
  \/ CmdReceived

SpecEvent == Init /\ [][NextEvent]_vars

EventsAdmin ==
  {Message(100, t) :
     t \in {cStats, cUsers, cClose, cOpen, cStartEvent, cHelpAdmin, cHelp,
            cStats \o <<"x">>,
            Arg(cDel, <<"1">>), Arg(cDel, <<"9">>), Arg(cDel, <<"x">>), cDel \o <<" ">>,
            Arg(cGift, <<"1">>), Arg(cGift, <<"9">>), Arg(cGift, <<"x">>), cGift,
            Arg(cReceived, <<"1">>), Arg(cReceived, <<"9">>),
            Arg(cReceived, <<"x">>), cReceived}}
  \cup {Message(200, t) :
          t \in {cStart, cStats, cClose, cOpen, cStartEvent, Arg(cDel, <<"1">>),
                 Arg(cGift, <<"1">>), Arg(cReceived, <<"1">>), cDel}}

NextAdmin ==
  \/ \E e \in EventsAdmin : Arrive(e, MaxUpdatesAdmin, MaxPending)
  \/ GetUpdates
  \/ Denied
  \/ CmdStats
  \/ CmdUsers
  \/ CmdClose
  \/ CmdOpen
  \/ CmdStartEventTooFew
  \/ CmdStartEvent
  \/ CmdDel
  \/ CmdGift
  \/ CmdReceived
  \/ CmdHelpAdmin
  \/ CmdNoBranch
  \/ Start
  \/ Help

SpecAdmin == Init /\ [][NextAdmin]_vars

\* the registration dialogue of two senders around the organizer's
\* lifecycle commands
EventsDialog ==
  {Message(400, t) : t \in {cStart, <<"a">>, <<" ", "b">>, cHelp, cClose}}
  \cup {Message(200, t) : t \in {cStart, <<"a">>}}
  \cup {Message(100, t) : t \in {cClose, cOpen, cStartEvent}}

NextDialog ==
  \/ \E e \in EventsDialog : Arrive(e, MaxUpdatesDialog, MaxPending)
  \/ GetUpdates
  \/ Denied
  \/ CmdClose
  \/ CmdOpen
  \/ CmdStartEventTooFew
  \/ CmdStartEvent
  \/ Start
  \/ Help
  \/ NoSession
  \/ StepFio
  \/ StepGroup
  \/ StepPreferences

SpecDialog == Init /\ [][NextDialog]_vars

\* the polling loop over batches of several updates, some of them broken
EventsIngest ==
  {Message(400, cHelp), Message(400, cStart), Message(400, <<"a">>), OtherUpdate,
   NoFromUpdate}

NextIngest ==
  \/ \E e \in EventsIngest : Arrive(e, MaxUpdatesIngest, MaxPendingIngest)
  \/ GetUpdates
  \/ SkipUpdate
  \/ RaiseInBatch
  \/ RaiseInStart
  \/ Start
  \/ Help
  \/ NoSession
  \/ StepFio
  \/ StepGroup
  \/ StepPreferences

SpecIngest == Init /\ [][NextIngest]_vars

\* ------------------------------------------------------------- properties
\* the step in which process_updates routes the update at the head of the batch
Handling ==
  /\ batch # <<>>
  /\ cur.kind = "message"
  /\ last_update_id' = cur.update_id
  /\ batch' = Tail(batch)

FromOrganizer == cur.from \in ORGANIZER_IDS

Replied(kind) == outbox # <<>> /\ outbox[1].kind = kind

RECURSIVE Walk(_, _, _)
Walk(db, i, steps) ==
  IF steps = 0 THEN {}
  ELSE {db[i].santa_id} \cup Walk(db, db[i].santa_id, steps - 1)

SingleCycle(db) ==
  LET ids == DOMAIN db
  IN /\ \A i \in ids : db[i].santa_id \in ids \ {i}
     /\ \A j \in ids : Cardinality({i \in ids : db[i].santa_id = j}) = 1
     /\ \A i \in ids : Walk(db, i, Cardinality(ids)) = ids

\* C1: after a successful start-event with n >= 2 participants the
\* giver -> recipient mapping is one cycle over all n ids: every participant
\* has a recipient, is the recipient of exactly one giver, none is its own
\* recipient, and following the recipients from any id visits every id;
\* for every shuffle order.
C1_SingleCycleAfterDraw ==
  Replied("draw_done") =>
    /\ Cardinality(DOMAIN users) >= 2
    /\ outbox[1].arg[1] = Cardinality(DOMAIN users)
    /\ SingleCycle(users)

C1_DrawOfThree == Replied("draw_done") /\ Cardinality(DOMAIN users) = 3

\* C2: in every reachable state no participant's santa_id is that
\* participant's own id.
C2_NoSelfAssignment == \A i \in DOMAIN users : users[i].santa_id # i

\* a draw, then a deletion that leaves a giver pointing at the deleted id
C2_DanglingAfterDelete ==
  /\ event_started
  /\ \E i \in DOMAIN users :
       users[i].santa_id # NULL /\ users[i].santa_id \notin DOMAIN users

Registered(user_id) == \E i \in DOMAIN users : users[i].telegram_id = user_id

OneRowPerExternalId ==
  \A i, j \in DOMAIN users : users[i].telegram_id = users[j].telegram_id => i = j

\* C3 (as stated, the answer being the one to /start): an external id has
\* at most one row; /start or dialogue input from a registered external id
\* adds no row, and its /start is answered as already registered.
C3_AnsweredAlreadyRegistered ==
  [][(Handling /\ Registered(curUser) /\ Route(curText) \in {"start", "message"})
       => /\ users' = users
          /\ Route(curText) = "start" =>
               /\ outbox' # <<>>
               /\ outbox'[1].kind = "already_registered"]_vars

\* C3 (amended): an external id has at most one row; /start or free text from
\* a registered external id adds no row and no session; /start is answered
\* with the already-registered confirmation while the event has not started
\* and with the assignment view once it has; free text is answered with the
\* use-/start prompt.
C3_RegisteredOnce ==
  /\ []OneRowPerExternalId
  /\ [][(Handling /\ Registered(curUser) /\ Route(curText) \in {"start", "message"})
          => /\ UNCHANGED <<store, user_data>>
             /\ Len(outbox') = 1
             /\ outbox'[1].to = curChat
             /\ outbox'[1].kind \in
                  IF Route(curText) = "message" THEN {"use_start"}
                  ELSE IF event_started THEN {"assignment", "no_assignment"}
                  ELSE {"already_registered"}]_vars

\* sender 400 went through the dialogue in this run and then sent /start
C3_StartAfterRegistering ==
  /\ outbox = <<Msg(400, "already_registered", <<<<"a">>, seq>>)>>
  /\ seq \in DOMAIN users
  /\ users[seq].telegram_id = 400

InList(q, id) == \E k \in 1..Len(q) : q[k] = id

\* C4: the cursor never decreases; an update is routed with the cursor set
\* to its id, in batch order, and its id was never routed before; a poll
\* returns only ids above the cursor, in ascending order.
C4_AtMostOnce ==
  [][/\ last_update_id' >= last_update_id
     /\ dispatched' # dispatched =>
          /\ batch # <<>>
          /\ dispatched' = Append(dispatched, cur.update_id)
          /\ last_update_id' = cur.update_id
          /\ ~InList(dispatched, cur.update_id)
     /\ (batch = <<>> /\ batch' # <<>>) =>
          \A k \in 1..Len(batch') :
            /\ batch'[k].update_id > last_update_id
            /\ k > 1 => batch'[k].update_id > batch'[k - 1].update_id]_vars

\* updates 2 and 4 moved the cursor without being routed
C4_RoutedAroundBroken == dispatched = <<1, 3>> /\ last_update_id = 4

\* C5: start-event with fewer than 2 participants writes nothing, sends the
\* organizer the need-at-least-2 message and nothing else.
C5_TooFewWritesNothing ==
  [][(Handling /\ FromOrganizer /\ curText = cStartEvent
        /\ Cardinality(DOMAIN users) < 2)
       => /\ UNCHANGED store
          /\ outbox' = <<Msg(curChat, "need_two", <<>>)>>]_vars

C5_RefusedWithOne == Replied("need_two") /\ Cardinality(DOMAIN users) = 1

Notices(box) == {k \in 1..Len(box) : box[k].kind = "gift_delivered_notice"}

\* C6: after a successful mark-delivered <id> the delivery notice goes to the
\* external id of the participant whose id is the santa_id of participant
\* <id>, and to nobody else.
C6_NoticeToRecipient ==
  Replied("gift_marked") =>
    LET giver == outbox[1].arg[1]
        recipient == users[giver].santa_id
    IN /\ \A k \in Notices(outbox) :
            /\ recipient \in DOMAIN users
            /\ outbox[k].to = users[recipient].telegram_id
       /\ recipient \in DOMAIN users => Notices(outbox) # {}

NotFoundKind(c) ==
  IF c = cDel THEN "del_not_found"
  ELSE IF c = cGift THEN "gift_not_found"
  ELSE "received_not_found"

UsageKind(c) ==
  IF c = cDel THEN "usage_del"
  ELSE IF c = cGift THEN "usage_gift"
  ELSE "usage_received"

NumericCommands == {cDel, cGift, cReceived}

\* the organizer's text is the command token c followed by more
CommandWithArg(c) ==
  /\ Handling
  /\ FromOrganizer
  /\ Split(curText) # <<>>
  /\ Split(curText)[1] = c

\* C7: delete, mark-delivered and mark-received with an id that matches no
\* participant change nothing in the store and send the organizer the
\* not-found message and nothing to anyone else.
C7_UnknownIdChangesNothing ==
  [][\A c \in NumericCommands :
       (CommandWithArg(c) /\ ParseArg(curText).ok
          /\ ParseArg(curText).val \notin DOMAIN users)
         => /\ UNCHANGED store
            /\ outbox' = <<Msg(curChat, NotFoundKind(c), <<>>)>>]_vars

C7_GiftForUnknownId == Replied("gift_not_found") /\ DOMAIN users # {}

\* C8: delete, mark-delivered and mark-received with a missing or a
\* non-numeric argument send the organizer the usage message and change
\* nothing in the store.
C8_MalformedGetsUsage ==
  [][\A c \in NumericCommands :
       (CommandWithArg(c) /\ ~ParseArg(curText).ok)
         => /\ UNCHANGED store
            /\ outbox' = <<Msg(curChat, UsageKind(c), <<>>)>>]_vars

\* C9: an admin command from a sender outside the organizer set is answered
\* with the permission-denied message and changes neither the store nor any
\* session.
C9_OutsiderDenied ==
  [][(Handling /\ IsAdminText(curText) /\ cur.from \notin ORGANIZER_IDS)
       => /\ UNCHANGED <<store, user_data>>
          /\ outbox' = <<Msg(curChat, "denied", <<>>)>>]_vars

\* the outsider was in the middle of registering
C9_DeniedDuringSession ==
  /\ outbox = <<Msg(200, "denied", <<>>)>>
  /\ 200 \in DOMAIN user_data

\* C10: handling the answer to the preferences question leaves the sender
\* without a session, whichever way the insert went.
C10_CommitEndsSession ==
  [][(/\ Handling
      /\ Route(curText) = "message"
      /\ curUser \in DOMAIN user_data
      /\ user_data[curUser].step = "preferences")
       => curUser \notin DOMAIN user_data']_vars

C10_CommittedNoSession ==
  /\ Replied("registered")
  /\ outbox[1].to \notin DOMAIN user_data
  /\ Registered(outbox[1].to)

\* C11: /start from a sender with a row, or while registration is closed,
\* leaves the session map and the store as they are and sends one reply: the
\* assignment view once the event has started and the already-registered
\* confirmation before, the closed message to a sender without a row. A
\* session appears only through /start of a sender without a row while
\* registration is open, and it starts at the name question.
C11_StartCreatesSessionOnlyWhenOpen ==
  /\ [][(Handling /\ Route(curText) = "start")
          => IF Registered(curUser)
             THEN /\ UNCHANGED <<store, user_data>>
                  /\ Len(outbox') = 1
                  /\ outbox'[1].to = curChat
                  /\ outbox'[1].kind \in
                       IF event_started THEN {"assignment", "no_assignment"}
                       ELSE {"already_registered"}
             ELSE IF ~registration_open
             THEN /\ UNCHANGED <<store, user_data>>
                  /\ outbox' = <<Msg(curChat, "registration_closed", <<>>)>>
             ELSE /\ UNCHANGED store
                  /\ DOMAIN user_data' = DOMAIN user_data \cup {curUser}
                  /\ user_data'[curUser] = [step |-> "fio"]
                  /\ \A u \in DOMAIN user_data \ {curUser} : user_data'[u] = user_data[u]
                  /\ outbox' = <<Msg(curChat, "ask_fio", <<>>)>>]_vars
  /\ [][\A u \in DOMAIN user_data' \ DOMAIN user_data :
          /\ Handling
          /\ curUser = u
          /\ curText = cStart
          /\ ~Registered(u)
          /\ registration_open
          /\ user_data'[u] = [step |-> "fio"]]_vars

\* sender 400 is told that registration is closed and keeps the session it
\* opened before the close
C11_ClosedKeepsSession ==
  /\ outbox = <<Msg(400, "registration_closed", <<>>)>>
  /\ 400 \in DOMAIN user_data
  /\ ~registration_open

\* C12: event_started is false at first, turns true only in the step that
\* handles the organizer's /start_event with at least two participants
\* stored, and once true stays true, through deletions that leave fewer than
\* two participants and through a refused re-run.
C12_EventStartedLatches ==
  /\ ~event_started
  /\ [][event_started => event_started']_vars
  /\ [][(~event_started /\ event_started')
          => /\ Handling
             /\ FromOrganizer
             /\ curText = cStartEvent
             /\ Cardinality(DOMAIN users) >= 2]_vars

\* a re-run refused after a deletion left one participant, the event still started
C12_RefusedRerunStillStarted ==
  /\ Replied("need_two")
  /\ event_started
  /\ Cardinality(DOMAIN users) < 2

\* C13: a participant is created with gift_delivered and gift_received
\* false; a flag that is true stays true for as long as the participant is
\* stored, through a re-run of the draw too; /gift or /received for an id
\* whose flag is already set leaves the store as it is and answers with the
\* same success message.
C13_FlagsOnlyRise ==
  /\ [][\A i \in DOMAIN users' \ DOMAIN users :
          ~users'[i].gift_delivered /\ ~users'[i].gift_received]_vars
  /\ [][\A i \in DOMAIN users \cap DOMAIN users' :
          /\ users[i].gift_delivered => users'[i].gift_delivered
          /\ users[i].gift_received => users'[i].gift_received]_vars
  /\ [][CommandWithArg(cGift)
          => LET a == ParseArg(curText)
             IN (a.ok /\ a.val \in DOMAIN users /\ users[a.val].gift_delivered)
                  => /\ UNCHANGED store
                     /\ outbox'[1] = Msg(curChat, "gift_marked", <<a.val>>)]_vars
  /\ [][CommandWithArg(cReceived)
          => LET a == ParseArg(curText)
             IN (a.ok /\ a.val \in DOMAIN users /\ users[a.val].gift_received)
                  => /\ UNCHANGED store
                     /\ outbox' = <<Msg(curChat, "received_marked", <<a.val>>)>>]_vars

\* a draw has just been run over participants one of whom already has a
\* delivered gift
C13_DrawKeepsDelivered ==
  /\ Replied("draw_done")
  /\ \E i \in DOMAIN users : users[i].gift_delivered

\* C14: the reply to a successful /start_event is the count message to the
\* organizer followed by exactly one message per stored participant, sent to
\* that participant's telegram_id and naming the id and the preferences of
\* the participant's recipient; the messages are all attempted whichever of
\* the sends fail.
C14_FanOutToEveryParticipant ==
  Replied("draw_done") =>
    /\ Len(outbox) = 1 + Cardinality(DOMAIN users)
    /\ \A i \in DOMAIN users :
         \E k \in 2..Len(outbox) :
           /\ outbox[k].to = users[i].telegram_id
           /\ outbox[k].kind = "assignment"
           /\ outbox[k].arg = <<users[i].santa_id, users[users[i].santa_id].preferences>>
           /\ \A j \in 2..Len(outbox) : outbox[j].to = outbox[k].to => j = k

\* a fan-out in which a send failed and later participants were still written to
C14_AttemptedAfterFailure ==
  /\ Replied("draw_done")
  /\ \E k \in 2..Len(outbox) : ~outbox[k].ok /\ k < Len(outbox)

\* C15: every text that process_updates routes is answered with at least one
\* message to the chat it came from, whoever sent it and whatever it says.
C15_EveryTextAnswered ==
  [][Handling => \E k \in 1..Len(outbox') : outbox'[k].to = curChat]_vars

\* the updates the feed holds above the cursor
AboveCursor == FromOffset(pending, last_update_id + 1)

\* the step in which an error abandons a batch that has more updates in it
AbandonsRest == Len(batch) > 1 /\ batch' = <<>>

\* C16: an error while an update is processed leaves the cursor at that
\* update, abandons the batch and writes nothing; the loop is then ready to
\* poll, and the poll returns every update the feed holds above the cursor,
\* the rest of the abandoned batch included. No text update is ever passed by
\* the cursor without having been routed.
C16_ErrorDropsOnlyFailingUpdate ==
  /\ [][AbandonsRest
          => /\ last_update_id' = cur.update_id
             /\ pending' = pending
             /\ Tail(batch) = SubSeq(FromOffset(pending', last_update_id' + 1),
                                     1, Len(batch) - 1)
             /\ UNCHANGED <<store, user_data>>]_vars
  /\ [][(batch = <<>> /\ batch' # <<>>) => batch' = AboveCursor]_vars
  /\ [](\A k \in 1..Len(pending) :
          (pending[k].kind = "message" /\ ~InList(dispatched, pending[k].update_id))
            => pending[k].update_id > last_update_id)
  /\ []((batch = <<>> /\ AboveCursor # <<>>) => ENABLED GetUpdates)

\* the update without a sender has just failed with a text update behind it
\* in the feed, not yet routed
C16_FailedWithTextBehind ==
  /\ batch = <<>>
  /\ Len(pending) = 2
  /\ pending[1].kind = "nofrom"
  /\ pending[1].update_id = last_update_id
  /\ pending[2].kind = "message"
  /\ ~InList(dispatched, pending[2].update_id)

\* sender u's session is not what it was: created, removed or rewritten
SessionChanged(u) ==
  \/ (u \in DOMAIN user_data) # (u \in DOMAIN user_data')
  \/ u \in DOMAIN user_data /\ u \in DOMAIN user_data' /\ user_data'[u] # user_data[u]

Senders == DOMAIN user_data \cup DOMAIN user_data'

\* the session after one answer, the answer stored as the text t
Answered(session, t) ==
  IF session.step = "fio" THEN [step |-> "group", fio |-> t]
  ELSE [step |-> "preferences", fio |-> session.fio, group |-> t]

\* C17 as stated: an existing session changes only by a free text of its
\* owner, which moves it one step forward and stores the text as it was
\* sent; a row is inserted only by the owner's answer to the third question,
\* from the texts as they were sent.
C17_ForwardVerbatim ==
  /\ [][\A u \in DOMAIN user_data :
          SessionChanged(u)
            => /\ Handling
               /\ curUser = u
               /\ Route(curText) = "message"
               /\ IF user_data[u].step = "preferences"
                  THEN u \notin DOMAIN user_data'
                  ELSE /\ u \in DOMAIN user_data'
                       /\ user_data'[u] = Answered(user_data[u], cur.text)]_vars
  /\ [][\A i \in DOMAIN users' \ DOMAIN users :
          /\ Handling
          /\ Route(curText) = "message"
          /\ curUser \in DOMAIN user_data
          /\ user_data[curUser].step = "preferences"
          /\ users'[i] = NewRow(curUser, user_data[curUser].fio,
                                user_data[curUser].group, cur.text)]_vars

\* C17, amended: a session changes only in a step that handles a text of its
\* owner: a free text moves it one step forward and stores the text without
\* its leading and trailing whitespace; /start of an owner without a row
\* while registration is open puts it (back) at the name question with no
\* fields. A row is inserted only by the owner's answer to the third
\* question, from the two stored fields and the stripped text, and that
\* answer ends the session.
C17_SessionSteps ==
  /\ [][\A u \in Senders :
          SessionChanged(u)
            => /\ Handling
               /\ curUser = u
               /\ \/ /\ curText = cStart
                     /\ registration_open
                     /\ ~Registered(u)
                     /\ u \in DOMAIN user_data'
                     /\ user_data'[u] = [step |-> "fio"]
                  \/ /\ Route(curText) = "message"
                     /\ u \in DOMAIN user_data
                     /\ IF user_data[u].step = "preferences"
                        THEN u \notin DOMAIN user_data'
                        ELSE /\ u \in DOMAIN user_data'
                             /\ user_data'[u] = Answered(user_data[u], Strip(cur.text))]_vars
  /\ [][\A i \in DOMAIN users' \ DOMAIN users :
          /\ Handling
          /\ Route(curText) = "message"
          /\ curUser \in DOMAIN user_data
          /\ user_data[curUser].step = "preferences"
          /\ curUser \notin DOMAIN user_data'
          /\ users'[i] = NewRow(curUser, user_data[curUser].fio,
                                user_data[curUser].group, Strip(cur.text))]_vars

\* sender 400 has just been registered with the preferences "b", sent as " b"
C17_RegisteredStripped ==
  /\ Replied("registered")
  /\ \E i \in DOMAIN users :
       /\ users[i].telegram_id = 400
       /\ users[i].fio = <<"a">>
       /\ users[i].preferences = <<"b">>

\* C18: /del <id> for a stored id removes that row and nothing else: the
\* other rows keep every column, a santa_id that pointed at the removed row
\* included, and seq, registration_open, event_started and the sessions stay
\* as they are. The organizer gets the deleted message, followed by the
\* re-run advisory exactly when event_started is set.
C18_DeleteRemovesOneRow ==
  [][CommandWithArg(cDel)
       => LET a == ParseArg(curText)
              i == a.val
          IN (a.ok /\ i \in DOMAIN users)
               => /\ DOMAIN users' = DOMAIN users \ {i}
                  /\ \A j \in DOMAIN users' : users'[j] = users[j]
                  /\ UNCHANGED <<seq, registration_open, event_started, user_data>>
                  /\ outbox' =
                       IF event_started
                       THEN <<Msg(curChat, "deleted",
                                  <<i, users[i].fio, users[i].group_name>>),
                              Msg(curChat, "rerun_advisory", <<>>)>>
                       ELSE <<Msg(curChat, "deleted",
                                  <<i, users[i].fio, users[i].group_name>>)>>]_vars

\* a participant was deleted after the draw: the advisory was sent and the
\* giver of the deleted participant still points at it
C18_DeletedAfterDraw ==
  /\ Replied("deleted")
  /\ Len(outbox) = 2
  /\ outbox[2].kind = "rerun_advisory"
  /\ \E j \in DOMAIN users : users[j].santa_id = outbox[1].arg[1]

\* C19 as stated: a row is inserted only while registration is open.
C19_NoInsertWhileClosed ==
  [][DOMAIN users' \subseteq DOMAIN users \/ registration_open]_vars

\* C19, amended: a session is created only while registration is open; a
\* row is inserted only for a sender whose session stands at the preferences
\* question, whether registration is open or closed at that moment.
C19_ClosedStopsNewSessionsOnly ==
  /\ [][DOMAIN user_data' \subseteq DOMAIN user_data \/ registration_open]_vars
  /\ [][\A i \in DOMAIN users' \ DOMAIN users :
          /\ Handling
          /\ users'[i].telegram_id = curUser
          /\ curUser \in DOMAIN user_data
          /\ user_data[curUser].step = "preferences"]_vars

\* sender 400 has just been registered while registration is closed
C19_RegisteredAfterClose ==
  /\ Replied("registered")
  /\ ~registration_open
  /\ Registered(400)
  /\ outbox[1].to = 400

\* C20: no sender has a session and a row at the same time, and the commit
\* step never answers from its IntegrityError branch.
C20_NoSessionWithRow ==
  /\ \A u \in DOMAIN user_data : ~Registered(u)
  /\ \A k \in 1..Len(outbox) : outbox[k].kind # "already_registered_conflict"

\* sender 400 has just been committed while sender 200 is still in a session
C20_CommitBesideOpenSession ==
  /\ Replied("registered")
  /\ outbox[1].to = 400
  /\ Registered(400)
  /\ 200 \in DOMAIN user_data

\* C21: in every state, no two stored participants have the same non-null
\* santa_id.
C21_RecipientsDistinct ==
  \A i, j \in DOMAIN users :
    (users[i].santa_id # NULL /\ users[i].santa_id = users[j].santa_id) => i = j

\* after a draw a participant was deleted: two givers are left with
\* different recipients, one of them the deleted participant
C21_DistinctAfterDelete ==
  /\ Replied("deleted")
  /\ \E i, j \in DOMAIN users :
       /\ i # j
       /\ users[i].santa_id \in DOMAIN users
       /\ users[j].santa_id = outbox[1].arg[1]

\* C22: while event_started is false every stored participant has santa_id
\* NULL; a participant with a santa_id exists only once event_started is true.
C22_AssignedOnlyOnceStarted ==
  /\ ~event_started => \A i \in DOMAIN users : users[i].santa_id = NULL
  /\ (\E i \in DOMAIN users : users[i].santa_id # NULL) => event_started

\* sender 400 has just been registered beside stored participants, before any draw
C22_RegisteredBeforeDraw ==
  /\ Replied("registered")
  /\ ~event_started
  /\ Cardinality(DOMAIN users) >= 2
  /\ \E i \in DOMAIN users : users[i].telegram_id = 400 /\ users[i].santa_id = NULL

====
